---------------------------- MODULE Spec2Model ----------------------------
(***************************************************************************)
(* TaskFlow backend (Express + Knex + JWT): registration, login, the       *)
(* authenticate middleware and the task controllers, as a state machine    *)
(* over the two database tables and the requests in flight.                *)
(*                                                                         *)
(* A request advances one step per database call (the points where an      *)
(* async handler can be interleaved with another request).  Strings that   *)
(* the code transforms (emails, names, the Authorization header) are       *)
(* sequences of one-character strings, so toLowerCase, trim, startsWith    *)
(* and split are computed, not assumed.                                    *)
(***************************************************************************)
EXTENDS Integers, Sequences, FiniteSets, TLC

VARIABLES users, tasks, now, env, userCount, taskCount, issued, pc, req, loc, resp,
          client

vars == <<users, tasks, now, env, userCount, taskCount, issued, pc, req, loc, resp,
          client>>

(***************************************************************************)
(* Bounds of the model.                                                    *)
(***************************************************************************)
\* Last tick of the clock.
MaxTime == 2
\* Number of uuidv4() values drawn for users, and for tasks.
MaxUsers == 2
MaxTasks == 2
\* Number of tokens the clients keep for later requests.
MaxIssued == 2
\* Ticks of the clock in the lifetime of a token (JWT_EXPIRES_IN, '7d').
TokenLifetime == 2
\* Ticks of the clock in a calendar day.
TicksPerDay == 2

\* How many days before day 0 a stored due date may lie when a request to
\* update a task is still sent.
MaxDaysBack == 1

(***************************************************************************)
(* Constants of the program.                                               *)
(***************************************************************************)
\* bcrypt work factor.
SALT_ROUNDS == 12
\* isLength({ min: 8 }) of the register password validator.
MinPasswordLen == 8

Procs == {"p1", "p2"}

(***************************************************************************)
(* The deployment: the server's time zone (process.env.TZ), as the offset  *)
(* of local time from UTC in ticks, and whether the database client hands  *)
(* DATE columns over as strings or as Date objects (the knexfile's         *)
(* connection options).                                                    *)
(***************************************************************************)
TzOffsets == {-1, 0, 1}

Envs == [tz : TzOffsets, dateStrings : BOOLEAN]

(***************************************************************************)
(* Strings.                                                                *)
(***************************************************************************)
toLowerCaseChar(c) ==
  CASE c = "A" -> "a"
    [] c = "B" -> "b"
    [] c = "F" -> "f"
    [] c = "O" -> "o"
    [] c = "T" -> "t"
    [] c = "X" -> "x"
    [] OTHER -> c

\* String.prototype.toLowerCase
toLowerCase(s) == [i \in 1..Len(s) |-> toLowerCaseChar(s[i])]

isSpace(c) == c = " "

RECURSIVE trimStart(_)
trimStart(s) == IF s # <<>> /\ isSpace(Head(s)) THEN trimStart(Tail(s)) ELSE s

RECURSIVE trimEnd(_)
trimEnd(s) ==
  IF s # <<>> /\ isSpace(s[Len(s)]) THEN trimEnd(SubSeq(s, 1, Len(s) - 1)) ELSE s

\* String.prototype.trim
trim(s) == trimEnd(trimStart(s))

\* validator.js isEmail: one "@" between a non-empty local part and a
\* non-empty domain, and no character outside the address alphabet (so no
\* blank anywhere, leading and trailing ones included).
isEmail(s) ==
  /\ Cardinality({i \in 1..Len(s) : s[i] = "@"}) = 1
  /\ s[1] # "@"
  /\ s[Len(s)] # "@"
  /\ \A i \in 1..Len(s) : ~isSpace(s[i])

(***************************************************************************)
(* Request inputs.                                                         *)
(***************************************************************************)
EmailInputs ==
  { <<"a", "@", "x">>, <<"A", "@", "x">>, <<" ", "a", "@", "x", " ">>,
    <<"b", "@", "x">> }

Pw1 == <<"s", "e", "c", "r", "e", "t", "0", "1">>
Pw2 == <<"s", "e", "c", "r", "e", "t", "0", "2">>
PwShort == <<"s", "h", "o", "r", "t">>

(***************************************************************************)
(* Credential hashing and tokens (bcryptjs, jsonwebtoken).                 *)
(***************************************************************************)
\* bcrypt.hash(password, SALT_ROUNDS): every call draws a fresh salt, so two
\* hashes of one password differ.
bcryptHash(password, salt) ==
  [alg |-> "bcrypt", rounds |-> SALT_ROUNDS, salt |-> salt, of |-> password]

\* bcrypt.compare(password, hash)
bcryptCompare(password, hash) == hash.of = password

\* process.env.JWT_SECRET
JWT_SECRET == "JWT_SECRET"

\* jwt.sign(payload, secret, { expiresIn }): iat is the signing time, exp
\* is iat plus the lifetime.
jwtSign(payload, secret, at) ==
  [payload |-> [userId |-> payload.userId, email |-> payload.email,
                iat |-> at, exp |-> at + TokenLifetime],
   key |-> secret]

(***************************************************************************)
(* The users table and its repository (config/repository.ts).              *)
(***************************************************************************)
\* mapUserFromDb: snake_case row to User
mapUserFromDb(row) ==
  [id |-> row.id, email |-> row.email, name |-> row.name,
   passwordHash |-> row.password, createdAt |-> row.created_at]

\* findUserById: db('users').where({ id }).first()
findUserById(id) == {mapUserFromDb(r) : r \in {x \in users : x.id = id}}

\* findUserByEmail: whereRaw('LOWER(email) = ?', [email.toLowerCase()])
findUserByEmail(email) ==
  {mapUserFromDb(r) : r \in {x \in users : toLowerCase(x.email) = toLowerCase(email)}}

\* The row saveUser inserts.
userRow(user, at) ==
  [id |-> user.id, email |-> user.email, password |-> user.passwordHash,
   name |-> user.name, created_at |-> at]

\* Variant: the users table without the unique index on email.
insertViolatesIdOnly(row) == \E x \in users : x.id = row.id

\* table.uuid('id').primary() and table.string('email').unique(): the
\* insert is refused when a row has the id or (under the table's
\* case-insensitive collation) the email.
insertViolates(row) ==
  \E x \in users : x.id = row.id \/ toLowerCase(x.email) = toLowerCase(row.email)

(***************************************************************************)
(* Responses (the ApiResponse envelope) and the validate middleware.       *)
(***************************************************************************)
NoResp == [status |-> 0]

Reply(status, body) == [status |-> status, body |-> body]

\* The error of a rejected knex query: its message is the statement with
\* its bindings written out, followed by the driver's message.  `quotes` are
\* the values the text spells out.
queryError(statement, bindings) ==
  [message |-> "statement - ER_DUP_ENTRY", statement |-> statement, quotes |-> bindings]

\* errorHandler: 500 with a redacted message when NODE_ENV is production,
\* with err.message otherwise.
errorHandler(err) ==
  { Reply(500, [success |-> FALSE, message |-> "An internal server error occurred."]),
    [status |-> 500, body |-> [success |-> FALSE, message |-> err.message],
     quotes |-> err.quotes] }

\* An async handler whose promise rejects: the error reaches errorHandler
\* or nobody (no response), depending on the Express major version.
ThrownOutcomes(err) == errorHandler(err) \cup { [status |-> 0, thrown |-> TRUE] }

\* validate: 422 with the collected messages
ValidationFailed(messages) ==
  Reply(422, [success |-> FALSE, message |-> "Validation failed.", errors |-> messages])

\* Variant: the user object returned as it is.
safeUserUnstripped(user) == user

\* { passwordHash: _omit, ...safeUser } = user
safeUser(user) == [f \in DOMAIN user \ {"passwordHash"} |-> user[f]]

(***************************************************************************)
(* controllers/authController.ts with the validators of routes/auth.ts.    *)
(***************************************************************************)
\* Variant: register validators that find nothing.
registerErrorsNone(body) == {}

\* router.post('/register', [...]) validators
registerErrors(body) ==
  (IF isEmail(body.email) THEN {} ELSE {"A valid email address is required."})
  \cup (IF Len(body.password) >= MinPasswordLen THEN {}
        ELSE {"Password must be at least 8 characters."})
  \cup (IF trim(body.name) # <<>> THEN {} ELSE {"Full name is required."})

\* router.post('/login', [...]) validators
loginErrors(body) ==
  (IF isEmail(body.email) THEN {} ELSE {"A valid email address is required."})
  \cup (IF body.password # <<>> THEN {} ELSE {"Password is required."})

\* Variant: the email stored as it was typed.
newUserAsTyped(body, id, at) ==
  [id |-> id,
   email |-> trim(body.email),
   name |-> trim(body.name),
   passwordHash |-> bcryptHash(body.password, id),
   createdAt |-> at]

\* register's newUser object; the salt of its hash is numbered like the id
\* (one bcrypt.hash call per registration).
newUser(body, id, at) ==
  [id |-> id,
   email |-> trim(toLowerCase(body.email)),
   name |-> trim(body.name),
   passwordHash |-> bcryptHash(body.password, id),
   createdAt |-> at]

\* The JwtPayload register and login build from the user.
tokenPayload(user) == [userId |-> user.id, email |-> user.email]

\* Variant: an answer that tells the account does not exist.
loginUnknownEmailTelling ==
  Reply(401, [success |-> FALSE, message |-> "No account with this email."])

\* login's answer when findUserByEmail finds nobody
loginUnknownEmail ==
  Reply(401, [success |-> FALSE, message |-> "Invalid email or password."])

\* login's answer when bcrypt.compare fails
loginWrongPassword ==
  Reply(401, [success |-> FALSE, message |-> "Invalid email or password."])

Finish(p, response) ==
  /\ pc' = [pc EXCEPT ![p] = "done"]
  /\ resp' = [resp EXCEPT ![p] = response]

Keep(issuedNow, token) ==
  IF Cardinality(issuedNow) < MaxIssued THEN issuedNow \cup {token} ELSE issuedNow

Idle(p) == pc[p] \in {"idle", "done"}

\* POST /auth/register up to the first await of register: validation, then
\* the duplicate lookup.
RegisterStart(p, body) ==
  /\ Idle(p)
  /\ req' = [req EXCEPT ![p] = [op |-> "register", body |-> body]]
  /\ IF registerErrors(body) # {}
       THEN /\ Finish(p, ValidationFailed(registerErrors(body)))
            /\ loc' = [loc EXCEPT ![p] = [at |-> "validate"]]
       ELSE IF findUserByEmail(body.email) # {}
         THEN /\ Finish(p, Reply(409, [success |-> FALSE,
                      message |-> "An account with this email already exists."]))
              /\ loc' = [loc EXCEPT ![p] = [at |-> "existing"]]
         ELSE /\ pc' = [pc EXCEPT ![p] = "register_hash"]
              /\ resp' = [resp EXCEPT ![p] = NoResp]
              \* the name sanitizer body('name').trim() rewrites req.body.name
              /\ loc' = [loc EXCEPT ![p] = [at |-> "hash", name |-> trim(body.name)]]
  /\ UNCHANGED <<users, tasks, now, userCount, taskCount, issued, env, client>>

\* register after bcrypt.hash resolves: build the user, insert it, sign the
\* token and answer.
RegisterSave(p) ==
  /\ pc[p] = "register_hash"
  /\ userCount < MaxUsers
  /\ LET body == [req[p].body EXCEPT !.name = loc[p].name]
         user == newUser(body, userCount + 1, now)
         row == userRow(user, now)
         token == jwtSign(tokenPayload(user), JWT_SECRET, now)
     IN  /\ userCount' = userCount + 1
         /\ IF insertViolates(row)
              THEN /\ \E out \in ThrownOutcomes(queryError("insert into users", row)) :
                        Finish(p, out)
                   /\ loc' = [loc EXCEPT ![p] = [at |-> "insert", id |-> user.id]]
                   /\ UNCHANGED <<users, issued>>
              ELSE /\ users' = users \cup {row}
                   /\ issued' = Keep(issued, token)
                   /\ loc' = [loc EXCEPT ![p] = [at |-> "created", id |-> user.id]]
                   /\ Finish(p, Reply(201, [success |-> TRUE,
                        data |-> [token |-> token, user |-> safeUser(user)],
                        message |-> "Account created successfully."]))
  /\ UNCHANGED <<tasks, now, taskCount, req, env, client>>

\* POST /auth/login up to the first await of login: validation, then the
\* lookup by email.
LoginStart(p, body) ==
  /\ Idle(p)
  /\ req' = [req EXCEPT ![p] = [op |-> "login", body |-> body]]
  /\ IF loginErrors(body) # {}
       THEN /\ Finish(p, ValidationFailed(loginErrors(body)))
            /\ loc' = [loc EXCEPT ![p] = [at |-> "validate"]]
       ELSE IF findUserByEmail(body.email) = {}
         THEN /\ Finish(p, loginUnknownEmail)
              /\ loc' = [loc EXCEPT ![p] = [at |-> "lookup"]]
         ELSE /\ pc' = [pc EXCEPT ![p] = "login_compare"]
              /\ resp' = [resp EXCEPT ![p] = NoResp]
              /\ \E user \in findUserByEmail(body.email) :
                   loc' = [loc EXCEPT ![p] = [at |-> "compare", user |-> user]]
  /\ UNCHANGED <<users, tasks, now, userCount, taskCount, issued, env, client>>

\* login after bcrypt.compare resolves.
LoginFinish(p) ==
  /\ pc[p] = "login_compare"
  /\ LET user == loc[p].user
         token == jwtSign(tokenPayload(user), JWT_SECRET, now)
     IN  IF ~bcryptCompare(req[p].body.password, user.passwordHash)
           THEN /\ Finish(p, loginWrongPassword)
                /\ loc' = [loc EXCEPT ![p] = [at |-> "password", id |-> user.id]]
                /\ UNCHANGED issued
           ELSE /\ Finish(p, Reply(200, [success |-> TRUE,
                        data |-> [token |-> token, user |-> safeUser(user)],
                        message |-> "Login successful."]))
                /\ loc' = [loc EXCEPT ![p] = [at |-> "token", id |-> user.id]]
                /\ issued' = Keep(issued, token)
  /\ UNCHANGED <<users, tasks, now, userCount, taskCount, req, env, client>>

(***************************************************************************)
(* middleware/auth.ts: the authenticate middleware.                        *)
(*                                                                         *)
(* An Authorization header is a sequence of atoms: SP is one blank, W(s)   *)
(* a run of non-blank characters, and a token record a JWT.                *)
(***************************************************************************)
SP == [sp |-> TRUE]

W(s) == [word |-> s]

AbsentHeader == [present |-> FALSE, value |-> <<>>]

Header(atoms) == [present |-> TRUE, value |-> atoms]

\* authHeader.startsWith('Bearer ')
startsWithBearer(value) ==
  /\ Len(value) >= 2
  /\ value[1] = W("Bearer")
  /\ value[2] = SP

\* String.prototype.split(' ')
RECURSIVE split(_)
split(value) ==
  IF \E i \in 1..Len(value) : value[i] = SP
    THEN LET i == CHOOSE k \in 1..Len(value) :
                    /\ value[k] = SP
                    /\ \A j \in 1..(k - 1) : value[j] # SP
         IN  <<SubSeq(value, 1, i - 1)>> \o split(SubSeq(value, i + 1, Len(value)))
    ELSE <<value>>

\* Variant: a token still accepted at the instant of its expiry.
tokenExpiredLate(exp, at) == at > exp

\* The comparison of jsonwebtoken's verify: expired when the clock has
\* reached exp.
tokenExpired(exp, at) == at >= exp

\* jwt.verify(token, secret): the signature is checked before the expiry.
jwtVerify(token, secret, at) ==
  IF token = <<>> \/ Len(token) # 1
    THEN [ok |-> FALSE, error |-> "JsonWebTokenError"]
  ELSE IF "payload" \notin DOMAIN token[1]
    THEN [ok |-> FALSE, error |-> "JsonWebTokenError"]
  ELSE IF token[1].key # secret
    THEN [ok |-> FALSE, error |-> "JsonWebTokenError"]
  ELSE IF tokenExpired(token[1].payload.exp, at)
    THEN [ok |-> FALSE, error |-> "TokenExpiredError"]
  ELSE [ok |-> TRUE, decoded |-> token[1].payload]

Unauthorized(message) == Reply(401, [success |-> FALSE, message |-> message])

\* The message of authenticate's catch block.
caughtMessage(error) ==
  IF error = "TokenExpiredError" THEN "Token has expired." ELSE "Invalid token."

\* Variant: a deleted subject answered like a bad token.
subjectGoneAsInvalid == Unauthorized("Invalid token.")

\* authenticate's answer when findUserById finds nobody.
subjectGone == Unauthorized("User account no longer exists.")

\* authenticate: the outcome for one request, given the header and the
\* clock; "next" is the call of next() with req.user set.
authenticate(header, at) ==
  IF ~header.present \/ header.value = <<>> \/ ~startsWithBearer(header.value)
    THEN [next |-> FALSE, verified |-> FALSE,
          response |-> Unauthorized("Access denied. No token provided.")]
  ELSE LET token == split(header.value)[2]
           result == jwtVerify(token, JWT_SECRET, at)
       IN  IF ~result.ok
             THEN [next |-> FALSE, verified |-> TRUE,
                   response |-> Unauthorized(caughtMessage(result.error))]
           ELSE IF findUserById(result.decoded.userId) = {}
             THEN [next |-> FALSE, verified |-> TRUE,
                   response |-> subjectGone]
           ELSE [next |-> TRUE, verified |-> TRUE, user |-> result.decoded]

\* A protected request up to the end of authenticate: rejected there, or
\* handed to the route's handlers at program point `first`.
Gate(p, request, first) ==
  /\ Idle(p)
  /\ req' = [req EXCEPT ![p] = request]
  /\ LET gate == authenticate(request.header, now)
     IN  IF gate.next
           THEN /\ pc' = [pc EXCEPT ![p] = first]
                /\ resp' = [resp EXCEPT ![p] = NoResp]
                /\ loc' = [loc EXCEPT ![p] = [at |-> "next", user |-> gate.user]]
           ELSE /\ Finish(p, gate.response)
                /\ loc' = [loc EXCEPT ![p] =
                             [at |-> "gate", verified |-> gate.verified]]
  /\ UNCHANGED <<users, tasks, now, userCount, taskCount, issued, env, client>>

\* Variant: a profile read that answers 401 for a vanished user.
meUnauthorized == Reply(401, [success |-> FALSE, message |-> "User not found."])

\* getMe's answer when findUserById finds nobody.
meNotFound == Reply(404, [success |-> FALSE, message |-> "User not found."])

\* GET /auth/me: authenticate.
MeStart(p, header) == Gate(p, [op |-> "me", header |-> header], "me_find")

\* getMe: the second lookup of the user, by req.user.userId.
MeFinish(p) ==
  /\ pc[p] = "me_find"
  /\ IF findUserById(loc[p].user.userId) = {}
       THEN Finish(p, meNotFound)
       ELSE \E user \in findUserById(loc[p].user.userId) :
              Finish(p, Reply(200, [success |-> TRUE, data |-> safeUser(user)]))
  /\ UNCHANGED <<users, tasks, now, userCount, taskCount, issued, req, loc, env, client>>

(***************************************************************************)
(* The tasks table and its repository (config/repository.ts).              *)
(***************************************************************************)
Null == [null |-> TRUE]

\* A calendar date is [date |-> d], the d-th day, as the string 'YYYY-MM-DD'
\* and as a DATE column; a Date object is [instant |-> t], t in ticks UTC.
\* What the database client returns for a DATE column: the string, or a
\* Date object at the midnight of that day in the server's time zone.
columnDate(value) ==
  IF value = Null THEN Null
  ELSE IF env.dateStrings THEN value
  ELSE [instant |-> value.date * TicksPerDay - env.tz]

\* mapTaskFromDb: snake_case row to Task
mapTaskFromDb(row) ==
  [id |-> row.id, userId |-> row.user_id, title |-> row.title,
   description |-> row.description, status |-> row.status,
   priority |-> row.priority, dueDate |-> columnDate(row.due_date),
   createdAt |-> row.created_at, updatedAt |-> row.updated_at]

\* findTaskById: db('tasks').where({ id }).first()
findTaskById(id) == {mapTaskFromDb(r) : r \in {x \in tasks : x.id = id}}

\* saveTask's due_date: null, the part of the string before 'T', or the
\* part before 'T' of the Date object's toISOString(), its UTC day.
formattedDueDate(dueDate) ==
  IF dueDate = Null THEN Null
  ELSE IF "date" \in DOMAIN dueDate THEN [date |-> dueDate.date]
  ELSE [date |-> dueDate.instant \div TicksPerDay]

\* saveTask's data object; updated_at is the database clock.
taskData(task, at) ==
  [id |-> task.id, user_id |-> task.userId, title |-> task.title,
   description |-> task.description, status |-> task.status,
   priority |-> task.priority, due_date |-> formattedDueDate(task.dueDate),
   updated_at |-> at]

\* db('tasks').where({ id }).update(data)
updateRows(data) ==
  {IF row.id = data.id
     THEN [f \in DOMAIN row |-> IF f \in DOMAIN data THEN data[f] ELSE row[f]]
     ELSE row : row \in tasks}

\* db('tasks').insert({ ...data, created_at }): the row, and whether the
\* primary key or the foreign key to users refuses it.
insertedRow(data, at) == [f \in DOMAIN data \cup {"created_at"} |->
                            IF f = "created_at" THEN at ELSE data[f]]

\* Variant: a delete that matches no row.
deleteNoRows(id) == tasks

\* repository.deleteTask: db('tasks').where({ id }).delete()
deleteRows(id) == {row \in tasks : row.id # id}

taskInsertViolates(row) ==
  \/ \E x \in tasks : x.id = row.id
  \/ ~\E u \in users : u.id = row.user_id

(***************************************************************************)
(* controllers/taskController.ts with the validators of routes/tasks.ts.   *)
(***************************************************************************)
TaskStatuses == {"todo", "in-progress", "done"}

TaskPriorities == {"low", "medium", "high"}

Has(body, key) == key \in DOMAIN body

\* A JSON value of a text field is a string, or one of these in place of
\* one: null, a number.
JsonNull == <<"null">>

JsonNumber == <<"number">>

isString(value) == value \notin {JsonNull, JsonNumber}

\* express-validator's toString, applied before every validator and
\* sanitizer: '' for null, the digits of a number, a string as it is.
toString(value) ==
  IF value = JsonNull THEN <<>>
  ELSE IF value = JsonNumber THEN <<"5">>
  ELSE value

\* The TypeError of description.trim() on a value that is not a string.
typeError == [message |-> "description.trim is not a function", quotes |-> <<>>]

\* new Date(new Date().setHours(0, 0, 0, 0)): the last midnight of the
\* server's time zone, as an instant.
startOfToday(at) == ((at + env.tz) \div TicksPerDay) * TicksPerDay - env.tz

\* The custom dueDate validator: new Date(value), the UTC midnight of the
\* date, earlier than the server's last local midnight.
dueDateInPast(value, at) == value.date * TicksPerDay < startOfToday(at)

\* The status, priority and dueDate chains shared by POST and PATCH.
fieldErrors(body, at) ==
  (IF Has(body, "status") /\ body.status \notin TaskStatuses
     THEN {"Status must be todo, in-progress, or done."} ELSE {})
  \cup (IF Has(body, "priority") /\ body.priority \notin TaskPriorities
          THEN {"Priority must be low, medium, or high."} ELSE {})
  \cup (IF Has(body, "dueDate") /\ body.dueDate # Null /\ dueDateInPast(body.dueDate, at)
          THEN {"Due date cannot be in the past."} ELSE {})

\* Variant: POST validators that find nothing.
createErrorsNone(body, at) == {}

\* router.post('/', [...]) validators
createErrors(body, at) ==
  (IF Has(body, "title") /\ trim(toString(body.title)) # <<>>
     THEN {} ELSE {"Task title is required."})
  \cup fieldErrors(body, at)

\* Variant: PATCH validators without the title chain.
updateErrorsNoTitle(body, at) == fieldErrors(body, at)

\* router.patch('/:id', [...]) validators
updateErrors(body, at) ==
  (IF Has(body, "title") /\ trim(toString(body.title)) = <<>>
     THEN {"Title cannot be empty."} ELSE {})
  \cup fieldErrors(body, at)

\* body('title').trim(): the sanitizer rewrites req.body.title
sanitized(body) ==
  [f \in DOMAIN body |-> IF f = "title" THEN trim(toString(body[f])) ELSE body[f]]

OrElse(body, key, default) == IF Has(body, key) THEN body[key] ELSE default

TaskNotFound == Reply(404, [success |-> FALSE, message |-> "Task not found."])

\* Variant: a handler that does not compare the owner.
ownedByAnyone(task, userId) == task.userId = task.userId

\* Whether the handlers may go on: !task || task.userId !== req.user.userId
ownedBy(task, userId) == task.userId = userId

\* The tasks findTaskById returns that pass the ownership check.
visibleTask(id, userId) == {t \in findTaskById(id) : ownedBy(t, userId)}

\* A query parameter as Express parses it: a string, or an array when the
\* parameter is repeated.
Str(s) == [str |-> s]

Arr(xs) == [arr |-> xs]

\* `value && typeof value === 'string'`; `empty` is the empty string.
isFilter(query, key, empty) ==
  /\ Has(query, key)
  /\ "str" \in DOMAIN query[key]
  /\ query[key].str # empty

\* String.prototype.includes
includes(s, q) ==
  \E i \in 0..(Len(s) - Len(q)) : SubSeq(s, i + 1, i + Len(q)) = q

\* Variant: the rows of every user.
getTasksOfAll(userId) == {mapTaskFromDb(r) : r \in {x \in tasks : x.user_id = x.user_id}}

\* getTasksByUser: db('tasks').where({ user_id }).select('*'), as a set;
\* the database returns the rows in an order of its choice.
getTasksByUser(userId) == {mapTaskFromDb(r) : r \in {x \in tasks : x.user_id = userId}}

Retrievals(found) ==
  {rows \in [1..Cardinality(found) -> found] :
     \A i, j \in 1..Cardinality(found) : rows[i] = rows[j] => i = j}

\* The three filters of getTasks, applied one after the other.
filtered(rows, query) ==
  LET byStatus ==
        IF isFilter(query, "status", "")
          THEN SelectSeq(rows, LAMBDA t : t.status = query.status.str) ELSE rows
      byPriority ==
        IF isFilter(query, "priority", "")
          THEN SelectSeq(byStatus, LAMBDA t : t.priority = query.priority.str)
          ELSE byStatus
  IN  IF isFilter(query, "search", <<>>)
        THEN SelectSeq(byPriority,
               LAMBDA t : \/ includes(toLowerCase(t.title), toLowerCase(query.search.str))
                          \/ includes(toLowerCase(t.description),
                                      toLowerCase(query.search.str)))
        ELSE byPriority

\* tasks.sort((a, b) => b.createdAt - a.createdAt): Array.prototype.sort is
\* stable, so tasks created at the same instant keep their order.
RECURSIVE sortByCreatedAtDesc(_)
sortByCreatedAtDesc(rows) ==
  IF rows = <<>> THEN <<>>
  ELSE LET front == sortByCreatedAtDesc(SubSeq(rows, 1, Len(rows) - 1))
           last == rows[Len(rows)]
           k == Cardinality({i \in 1..Len(front) : front[i].createdAt >= last.createdAt})
       IN  SubSeq(front, 1, k) \o <<last>> \o SubSeq(front, k + 1, Len(front))

\* GET /tasks: authenticate.
ListStart(p, header, query) ==
  Gate(p, [op |-> "getTasks", header |-> header, query |-> query], "list_query")

\* getTasks: the rows of the user, filtered, sorted, sent.
ListFinish(p) ==
  /\ pc[p] = "list_query"
  /\ \E rows \in Retrievals(getTasksByUser(loc[p].user.userId)) :
       /\ loc' = [loc EXCEPT ![p] =
                    [at |-> "listed", user |-> loc[p].user, retrieved |-> rows]]
       /\ Finish(p, Reply(200, [success |-> TRUE,
                   data |-> sortByCreatedAtDesc(filtered(rows, req[p].query))]))
  /\ UNCHANGED <<users, tasks, now, userCount, taskCount, issued, req, env, client>>

\* GET /tasks/:id: authenticate.
GetStart(p, header, id) ==
  Gate(p, [op |-> "getTask", header |-> header, id |-> id], "get_find")

\* getTaskById
GetFinish(p) ==
  /\ pc[p] = "get_find"
  /\ IF visibleTask(req[p].id, loc[p].user.userId) = {}
       THEN Finish(p, TaskNotFound)
       ELSE \E task \in visibleTask(req[p].id, loc[p].user.userId) :
              Finish(p, Reply(200, [success |-> TRUE, data |-> task]))
  /\ UNCHANGED <<users, tasks, now, userCount, taskCount, issued, req, loc, env, client>>

\* POST /tasks: authenticate.
CreateStart(p, header, body) ==
  Gate(p, [op |-> "createTask", header |-> header, body |-> body], "create_handler")

\* Variant: a task created for the user the body names.
createdTaskAsAsked(body, id, userId, at) ==
  [id |-> id,
   title |-> trim(body.title),
   description |-> trim(OrElse(body, "description", <<>>)),
   status |-> OrElse(body, "status", "todo"),
   priority |-> OrElse(body, "priority", "medium"),
   dueDate |-> OrElse(body, "dueDate", Null),
   createdAt |-> at,
   updatedAt |-> at,
   userId |-> OrElse(body, "userId", userId)]

\* createTask's newTask: the body's fields or their defaults, a new uuid,
\* the clock, and the user the gate identified.
createdTask(body, id, userId, at) ==
  [id |-> id,
   title |-> trim(body.title),
   description |-> trim(OrElse(body, "description", <<>>)),
   status |-> OrElse(body, "status", "todo"),
   priority |-> OrElse(body, "priority", "medium"),
   dueDate |-> OrElse(body, "dueDate", Null),
   createdAt |-> at,
   updatedAt |-> at,
   userId |-> userId]

\* The validators, then createTask up to saveTask's lookup.
CreateHandler(p) ==
  /\ pc[p] = "create_handler"
  /\ LET errors == createErrors(req[p].body, now)
         newTask == createdTask(sanitized(req[p].body), taskCount + 1,
                                loc[p].user.userId, now)
     IN  IF errors # {}
           THEN /\ Finish(p, ValidationFailed(errors))
                /\ UNCHANGED <<loc, taskCount>>
           ELSE IF ~isString(OrElse(req[p].body, "description", <<>>))
             \* description.trim() throws while newTask is built
             THEN /\ \E out \in ThrownOutcomes(typeError) : Finish(p, out)
                  /\ UNCHANGED <<loc, taskCount>>
           ELSE /\ taskCount < MaxTasks
                /\ taskCount' = taskCount + 1
                /\ pc' = [pc EXCEPT ![p] = "create_write"]
                /\ loc' = [loc EXCEPT ![p] =
                     [at |-> "save", user |-> loc[p].user, task |-> newTask,
                      existing |-> findTaskById(newTask.id) # {}]]
                /\ UNCHANGED resp
  /\ UNCHANGED <<users, tasks, now, userCount, issued, req, env, client>>

\* The second half of saveTask: update or insert, then the handler's answer.
SaveWrite(p, answer) ==
  LET data == taskData(loc[p].task, now)
      row == insertedRow(data, now)
  IN  IF loc[p].existing
        THEN /\ tasks' = updateRows(data)
             /\ Finish(p, answer)
        ELSE IF taskInsertViolates(row)
          THEN /\ \E out \in ThrownOutcomes(queryError("insert into tasks", row)) :
                    Finish(p, out)
               /\ UNCHANGED tasks
          ELSE /\ tasks' = tasks \cup {row}
               /\ Finish(p, answer)

CreateWrite(p) ==
  /\ pc[p] = "create_write"
  /\ SaveWrite(p, Reply(201, [success |-> TRUE, data |-> loc[p].task,
                             message |-> "Task created successfully."]))
  /\ UNCHANGED <<users, now, userCount, taskCount, issued, req, loc, env, client>>

\* PATCH /tasks/:id: authenticate.
UpdateStart(p, header, id, body) ==
  Gate(p, [op |-> "updateTask", header |-> header, id |-> id, body |-> body],
       "update_handler")

\* The validators, then updateTask's lookup and ownership check.
UpdateHandler(p) ==
  /\ pc[p] = "update_handler"
  /\ LET errors == updateErrors(req[p].body, now)
         found == visibleTask(req[p].id, loc[p].user.userId)
     IN  IF errors # {}
           THEN /\ Finish(p, ValidationFailed(errors))
                /\ UNCHANGED loc
           ELSE IF found = {}
             THEN /\ Finish(p, TaskNotFound)
                  /\ UNCHANGED loc
             ELSE /\ pc' = [pc EXCEPT ![p] = "update_save"]
                  /\ \E task \in found :
                       loc' = [loc EXCEPT ![p] =
                                 [at |-> "found", user |-> loc[p].user, task |-> task]]
                  /\ UNCHANGED resp
  /\ UNCHANGED <<users, tasks, now, userCount, taskCount, issued, req, env, client>>

\* Variant: a merge that also takes the owner from the body.
updatedTaskWithOwner(task, body, at) ==
  [task EXCEPT !.userId = OrElse(body, "userId", task.userId), !.updatedAt = at]

\* updateTask's merge of the body into the task it read.
updatedTask(task, body, at) ==
  [task EXCEPT
     !.title = IF Has(body, "title") THEN trim(body.title) ELSE task.title,
     !.description =
        IF Has(body, "description") THEN trim(body.description) ELSE task.description,
     !.status = IF Has(body, "status") THEN body.status ELSE task.status,
     !.priority = IF Has(body, "priority") THEN body.priority ELSE task.priority,
     !.dueDate = IF Has(body, "dueDate") THEN body.dueDate ELSE task.dueDate,
     !.updatedAt = at]

\* updateTask builds the merged task and enters saveTask (its lookup).
UpdateSave(p) ==
  /\ pc[p] = "update_save"
  /\ IF ~isString(OrElse(req[p].body, "description", <<>>))
       \* description.trim() throws while updatedTask is built
       THEN /\ \E out \in ThrownOutcomes(typeError) : Finish(p, out)
            /\ UNCHANGED loc
       ELSE LET merged == updatedTask(loc[p].task, sanitized(req[p].body), now)
            IN  /\ loc' = [loc EXCEPT ![p] =
                             [at |-> "save", user |-> loc[p].user, task |-> merged,
                              existing |-> findTaskById(merged.id) # {}]]
                /\ pc' = [pc EXCEPT ![p] = "update_write"]
                /\ UNCHANGED resp
  /\ UNCHANGED <<users, tasks, now, userCount, taskCount, issued, req, env, client>>

UpdateWrite(p) ==
  /\ pc[p] = "update_write"
  /\ SaveWrite(p, Reply(200, [success |-> TRUE, data |-> loc[p].task,
                             message |-> "Task updated successfully."]))
  /\ UNCHANGED <<users, now, userCount, taskCount, issued, req, loc, env, client>>

\* DELETE /tasks/:id: authenticate.
DeleteStart(p, header, id) ==
  Gate(p, [op |-> "deleteTask", header |-> header, id |-> id], "delete_find")

\* deleteTask's lookup and ownership check.
DeleteFind(p) ==
  /\ pc[p] = "delete_find"
  /\ LET found == visibleTask(req[p].id, loc[p].user.userId)
     IN  IF found = {}
           THEN /\ Finish(p, TaskNotFound)
                /\ UNCHANGED loc
           ELSE /\ pc' = [pc EXCEPT ![p] = "delete_write"]
                /\ \E task \in found :
                     loc' = [loc EXCEPT ![p] =
                               [at |-> "found", user |-> loc[p].user, task |-> task]]
                /\ UNCHANGED resp
  /\ UNCHANGED <<users, tasks, now, userCount, taskCount, issued, req, env, client>>

\* repository.deleteTask(task.id), then the answer.
DeleteWrite(p) ==
  /\ pc[p] = "delete_write"
  /\ tasks' = deleteRows(loc[p].task.id)
  /\ Finish(p, Reply(200, [success |-> TRUE, message |-> "Task deleted successfully."]))
  /\ UNCHANGED <<users, now, userCount, taskCount, issued, req, loc, env, client>>

\* A row of users deleted in the database; migrations: tasks.user_id
\* REFERENCES users(id) ON DELETE CASCADE.
DbDeleteUser(id) ==
  /\ \E row \in users : row.id = id
  /\ users' = {row \in users : row.id # id}
  /\ tasks' = {row \in tasks : row.user_id # id}
  /\ UNCHANGED <<now, userCount, taskCount, issued, pc, req, loc, resp, env, client>>

\* The error of a store call that fails for a reason outside the request:
\* the connection is lost, the pool times out.
storeError == [message |-> "connect ECONNREFUSED", quotes |-> <<>>]

\* authenticate when its findUserById rejects: the await is inside the try
\* block, so the catch block answers, and the error is no TokenExpiredError.
GateFails(p, request) ==
  /\ Idle(p)
  /\ request.header.present
  /\ request.header.value # <<>>
  /\ startsWithBearer(request.header.value)
  /\ jwtVerify(split(request.header.value)[2], JWT_SECRET, now).ok
  /\ req' = [req EXCEPT ![p] = request]
  /\ Finish(p, Unauthorized(caughtMessage("Error")))
  /\ loc' = [loc EXCEPT ![p] = [at |-> "fault", call |-> "findUserById"]]
  /\ UNCHANGED <<users, tasks, now, userCount, taskCount, issued, env, client>>

\* register or login when its findUserByEmail rejects: the promise of the
\* async handler rejects.
LookupFails(p, op, body) ==
  /\ Idle(p)
  /\ op \in {"register", "login"}
  /\ (IF op = "register" THEN registerErrors(body) ELSE loginErrors(body)) = {}
  /\ req' = [req EXCEPT ![p] = [op |-> op, body |-> body]]
  /\ \E out \in ThrownOutcomes(storeError) : Finish(p, out)
  /\ loc' = [loc EXCEPT ![p] = [at |-> "fault", call |-> "findUserByEmail"]]
  /\ UNCHANGED <<users, tasks, now, userCount, taskCount, issued, env, client>>

\* The next step of p's handler is a call of the repository.
AwaitsStore(p) ==
  \/ pc[p] \in {"register_hash", "me_find", "list_query", "get_find", "create_write",
                "update_save", "update_write", "delete_find", "delete_write"}
  \/ /\ pc[p] = "create_handler"
     /\ createErrors(req[p].body, now) = {}
     /\ isString(OrElse(req[p].body, "description", <<>>))
  \/ /\ pc[p] = "update_handler"
     /\ updateErrors(req[p].body, now) = {}

\* A handler whose repository call rejects: nothing catches it in the
\* handler, the promise of the async handler rejects, no call is repeated.
StoreFails(p) ==
  /\ AwaitsStore(p)
  /\ \E out \in ThrownOutcomes(storeError) : Finish(p, out)
  /\ loc' = [loc EXCEPT ![p] = [at |-> "fault", call |-> pc[p]]]
  /\ UNCHANGED <<users, tasks, now, userCount, taskCount, issued, req, env, client>>

(***************************************************************************)
(* The web client: services/api.ts, store/authStore.ts, App.tsx and        *)
(* components/ui/ProtectedRoute.tsx.                                        *)
(*                                                                         *)
(* `client` is the browser: the page shown, the token of the auth store,   *)
(* the token persisted under 'auth-storage', the token under the           *)
(* localStorage key 'token', the API call in flight with what was sent,    *)
(* and whether the dashboard has its tasks.                                *)
(***************************************************************************)
NoToken == [none |-> TRUE]

NoClient ==
  [page |-> "/login", token |-> NoToken, storage |-> NoToken, localToken |-> NoToken,
   call |-> "none", sent |-> [op |-> "none"], loaded |-> FALSE]

\* The connection of the browser.
Browser == "p1"

\* The request interceptor: the Authorization header from localStorage.
requestInterceptor(localToken) ==
  IF localToken # NoToken THEN Header(<<W("Bearer"), SP, localToken>>) ELSE AbsentHeader

\* App's routes: /login shows AuthPage without a token and navigates to /
\* with one; ProtectedRoute navigates to /login without a token.
Navigate ==
  /\ client.call = "none"
  /\ \/ /\ client.page = "/login" /\ client.token # NoToken
        /\ client' = [client EXCEPT !.page = "/", !.loaded = FALSE]
     \/ /\ client.page = "/" /\ client.token = NoToken
        /\ client' = [client EXCEPT !.page = "/login"]
  /\ UNCHANGED <<users, tasks, now, env, userCount, taskCount, issued, pc, req, loc, resp>>

\* AuthPage's handleSubmit in login mode: the store's login calls the API.
SubmitLogin(body) ==
  /\ client.page = "/login" /\ client.token = NoToken
  /\ client.call = "none" /\ pc[Browser] = "idle"
  /\ client' = [client EXCEPT !.call = "login", !.sent = [op |-> "login", body |-> body]]
  /\ UNCHANGED <<users, tasks, now, env, userCount, taskCount, issued, pc, req, loc, resp>>

\* The dashboard's useTasks query: on mount (nothing loaded yet) or again
\* later (window focus, stale data).
FetchTasks(again) ==
  /\ client.page = "/" /\ client.token # NoToken
  /\ client.call = "none" /\ pc[Browser] = "idle"
  /\ client.loaded = again
  /\ client' = [client EXCEPT
       !.call = "tasks",
       !.sent = [op |-> "getTasks", header |-> requestInterceptor(client.localToken),
                 query |-> [x \in {} |-> Null]]]
  /\ UNCHANGED <<users, tasks, now, env, userCount, taskCount, issued, pc, req, loc, resp>>

\* The request reaches the server.
Deliver ==
  /\ pc[Browser] = "idle"
  /\ \/ client.call = "login" /\ LoginStart(Browser, client.sent.body)
     \/ client.call = "tasks" /\ ListStart(Browser, client.sent.header, client.sent.query)

\* The answer reaches the client.  The response interceptor on 401 removes
\* 'token' and 'user' from localStorage and sets window.location.href to
\* '/login': the page loads anew and the auth store is restored from
\* 'auth-storage'.  Otherwise the store's login keeps the token of a 200,
\* and the query keeps the tasks of a 200.
Receive ==
  /\ client.call # "none" /\ pc[Browser] = "done"
  /\ pc' = [pc EXCEPT ![Browser] = "idle"]
  /\ IF resp[Browser].status = 401
       THEN client' = [client EXCEPT !.localToken = NoToken, !.page = "/login",
                                     !.token = client.storage, !.loaded = FALSE,
                                     !.call = "none"]
       ELSE IF client.call = "login" /\ resp[Browser].status = 200
         THEN client' = [client EXCEPT !.localToken = resp[Browser].body.data.token,
                                       !.token = resp[Browser].body.data.token,
                                       !.storage = resp[Browser].body.data.token,
                                       !.call = "none"]
       ELSE IF client.call = "tasks" /\ resp[Browser].status = 200
         THEN client' = [client EXCEPT !.loaded = TRUE, !.call = "none"]
       ELSE client' = [client EXCEPT !.call = "none"]
  /\ UNCHANGED <<users, tasks, now, env, userCount, taskCount, issued, req, loc, resp>>

\* The store's logout, from the button of the layout.
Logout ==
  /\ client.page = "/" /\ client.token # NoToken /\ client.call = "none"
  /\ client' = [client EXCEPT !.localToken = NoToken, !.token = NoToken,
                                !.storage = NoToken]
  /\ UNCHANGED <<users, tasks, now, env, userCount, taskCount, issued, pc, req, loc, resp>>

\* The clock.
Tick ==
  /\ now < MaxTime
  /\ now' = now + 1
  /\ UNCHANGED <<users, tasks, userCount, taskCount, issued, pc, req, loc, resp, env, client>>

Init ==
  /\ users = {}
  /\ tasks = {}
  /\ now = 0
  /\ env \in Envs
  /\ userCount = 0
  /\ taskCount = 0
  /\ issued = {}
  /\ pc = [p \in Procs |-> "idle"]
  /\ req = [p \in Procs |-> [op |-> "none"]]
  /\ loc = [p \in Procs |-> [at |-> "none"]]
  /\ resp = [p \in Procs |-> NoResp]
  /\ client = NoClient

RegisterBodies ==
  [email : EmailInputs, password : {Pw1}, name : {<<"A", "l">>}]
  \cup { [email |-> <<"a", "@", "x">>, password |-> PwShort, name |-> <<"A", "l">>],
         [email |-> <<"b", "@", "x">>, password |-> Pw1, name |-> <<" ">>] }

LoginBodies ==
  [email : EmailInputs, password : {Pw1, Pw2}]
  \cup { [email |-> <<"a", "@", "x">>, password |-> <<>>] }

NextAuth ==
  \/ \E p \in Procs : \E body \in RegisterBodies : RegisterStart(p, body)
  \/ \E p \in Procs : RegisterSave(p)
  \/ \E p \in Procs : \E body \in LoginBodies : LoginStart(p, body)
  \/ \E p \in Procs : LoginFinish(p)

SpecAuth == Init /\ [][NextAuth]_vars

(***************************************************************************)
(* The gate: one account, its tokens and forged ones, every header shape.  *)
(***************************************************************************)
GateRegisterBodies ==
  { [email |-> <<"a", "@", "x">>, password |-> Pw1, name |-> <<"A", "l">>] }

GateLoginBodies == { [email |-> <<"A", "@", "x">>, password |-> Pw1] }

\* A token signed with another key, carrying the claims of an issued one.
Forged(token) == [payload |-> token.payload, key |-> "other"]

\* The headers a client can send that holds token t.
HeadersWith(t) ==
  { Header(<<W("Bearer"), SP, t>>),
    Header(<<W("Bearer"), SP, t, SP, W("x")>>),
    Header(<<W("Bearer"), SP, SP, t>>),
    Header(<<W("Basic"), SP, t>>),
    Header(<<W("bearer"), SP, t>>),
    Header(<<t>>),
    Header(<<W("Bearer"), SP, Forged(t)>>) }

HeadersWithout ==
  { AbsentHeader, Header(<<>>), Header(<<W("Bearer")>>), Header(<<W("Bearer"), SP>>),
    Header(<<W("Bearer"), SP, W("garbage")>>) }

HeaderInputs == HeadersWithout \cup UNION {HeadersWith(t) : t \in issued}

GateProcs == {"p1"}

GateTaskIds == {1}


NextGate ==
  \/ \E p \in GateProcs : \E body \in GateRegisterBodies : RegisterStart(p, body)
  \/ \E p \in GateProcs : RegisterSave(p)
  \/ \E p \in GateProcs : \E body \in GateLoginBodies : LoginStart(p, body)
  \/ \E p \in GateProcs : LoginFinish(p)
  \/ \E p \in GateProcs : \E header \in HeaderInputs : MeStart(p, header)
  \/ \E p \in GateProcs : MeFinish(p)
  \/ \E p \in GateProcs : \E h \in HeaderInputs : \E id \in GateTaskIds : GetStart(p, h, id)
  \/ \E p \in GateProcs : GetFinish(p)
  \/ \E id \in 1..MaxUsers : DbDeleteUser(id)
  \/ Tick

SpecGate == Init /\ [][NextGate]_vars

(***************************************************************************)
(* Every route: one client, and a second one that only registers.          *)
(***************************************************************************)
CreateBodies == { [title |-> <<"T">>], [title |-> <<" ">>] }

UpdateBodies == { [status |-> "done"], [status |-> "bogus"] }

ApiRegisterBodies ==
  GateRegisterBodies
  \cup { [email |-> <<"a", "@", "x">>, password |-> PwShort, name |-> <<"A", "l">>] }

ApiLoginBodies ==
  GateLoginBodies
  \cup { [email |-> <<"a", "@", "x">>, password |-> Pw2],
         [email |-> <<"a", "@", "x">>, password |-> <<>>] }

ApiHeaders == {AbsentHeader} \cup {Header(<<W("Bearer"), SP, t>>) : t \in issued}

ApiQueries == { [status |-> Str("done")] }

NextApi ==
  \/ \E p \in Procs : \E body \in ApiRegisterBodies : RegisterStart(p, body)
  \/ \E p \in Procs : RegisterSave(p)
  \/ \E p \in GateProcs : \E body \in ApiLoginBodies : LoginStart(p, body)
  \/ \E p \in GateProcs : LoginFinish(p)
  \/ \E p \in GateProcs : \E h \in ApiHeaders : MeStart(p, h)
  \/ \E p \in GateProcs : MeFinish(p)
  \/ \E p \in GateProcs : \E h \in ApiHeaders : \E query \in ApiQueries : ListStart(p, h, query)
  \/ \E p \in GateProcs : ListFinish(p)
  \/ \E p \in GateProcs : \E h \in ApiHeaders : \E id \in GateTaskIds : GetStart(p, h, id)
  \/ \E p \in GateProcs : GetFinish(p)
  \/ \E p \in GateProcs : \E h \in ApiHeaders : \E body \in CreateBodies :
        CreateStart(p, h, body)
  \/ \E p \in GateProcs : CreateHandler(p)
  \/ \E p \in GateProcs : CreateWrite(p)
  \/ \E p \in GateProcs : \E h \in ApiHeaders : \E id \in GateTaskIds :
        \E body \in UpdateBodies : UpdateStart(p, h, id, body)
  \/ \E p \in GateProcs : UpdateHandler(p)
  \/ \E p \in GateProcs : UpdateSave(p)
  \/ \E p \in GateProcs : UpdateWrite(p)
  \/ \E p \in GateProcs : \E h \in ApiHeaders : \E id \in GateTaskIds :
        DeleteStart(p, h, id)
  \/ \E p \in GateProcs : DeleteFind(p)
  \/ \E p \in GateProcs : DeleteWrite(p)
  \/ \E id \in 1..MaxUsers : DbDeleteUser(id)

SpecApi == Init /\ [][NextApi]_vars

(***************************************************************************)
(* The task routes: two accounts, their tokens, concurrent requests.       *)
(***************************************************************************)
\* The database after the two registrations a@x and b@x at time 0, the
\* tokens they returned, and a server with no request in flight.
SeedUser(id, email) ==
  [id |-> id, email |-> email, name |-> <<"A", "l">>,
   passwordHash |-> bcryptHash(Pw1, id), createdAt |-> 0]

SeedUsers == { SeedUser(1, <<"a", "@", "x">>), SeedUser(2, <<"b", "@", "x">>) }

InitTasks ==
  /\ users = {userRow(u, 0) : u \in SeedUsers}
  /\ tasks = {}
  /\ now = 0
  /\ env \in Envs
  /\ userCount = 2
  /\ taskCount = 0
  /\ issued = {jwtSign([userId |-> u.id, email |-> u.email], JWT_SECRET, 0) : u \in SeedUsers}
  /\ pc = [p \in Procs |-> "idle"]
  /\ req = [p \in Procs |-> [op |-> "none"]]
  /\ loc = [p \in Procs |-> [at |-> "none"]]
  /\ resp = [p \in Procs |-> NoResp]
  /\ client = NoClient

\* Each connection is one client: p1 holds the token of user 1, p2 that of
\* user 2.
ClientOf(p) == IF p = "p1" THEN 1 ELSE 2

TaskHeaders(p) ==
  {Header(<<W("Bearer"), SP, t>>) : t \in {x \in issued : x.payload.userId = ClientOf(p)}}

TaskIds == 1..MaxTasks

NextTasks ==
  \/ \E p \in Procs : \E h \in TaskHeaders(p) : \E id \in TaskIds : GetStart(p, h, id)
  \/ \E p \in Procs : GetFinish(p)
  \/ \E p \in Procs : \E h \in TaskHeaders(p) : \E body \in CreateBodies :
        CreateStart(p, h, body)
  \/ \E p \in Procs : CreateHandler(p)
  \/ \E p \in Procs : CreateWrite(p)
  \/ \E p \in Procs : \E h \in TaskHeaders(p) : \E id \in TaskIds :
        \E body \in UpdateBodies : UpdateStart(p, h, id, body)
  \/ \E p \in Procs : UpdateHandler(p)
  \/ \E p \in Procs : UpdateSave(p)
  \/ \E p \in Procs : UpdateWrite(p)
  \/ \E p \in Procs : \E h \in TaskHeaders(p) : \E id \in TaskIds : DeleteStart(p, h, id)
  \/ \E p \in Procs : DeleteFind(p)
  \/ \E p \in Procs : DeleteWrite(p)

SpecTasks == InitTasks /\ [][NextTasks]_vars

(***************************************************************************)
(* Listing: the first client creates tasks at different times and lists.   *)
(***************************************************************************)
ListCreateBodies ==
  { [title |-> <<"F", "o">>, status |-> "done", priority |-> "high"],
    [title |-> <<"T">>, description |-> <<"f", "O", "o">>] }

ListQueries ==
  { [x \in {} |-> Null],
    [status |-> Str("done")],
    [status |-> Str("")],
    [priority |-> Arr(<<"high", "low">>)],
    [search |-> Str(<<"f", "O">>)],
    [status |-> Str("todo"), search |-> Str(<<"O", "o">>)],
    [status |-> Str("done"), priority |-> Str("high"), search |-> Str(<<"f", "o">>)] }

\* The task the second user created at time 0 from the first body.
SeedTask ==
  [id |-> 0, title |-> <<"F", "o">>, description |-> <<>>, status |-> "done",
   priority |-> "high", dueDate |-> Null, createdAt |-> 0, updatedAt |-> 0,
   userId |-> 2]

\* A server in UTC, the two accounts, and the second user's task.
InitList ==
  /\ users = {userRow(u, 0) : u \in SeedUsers}
  /\ tasks = {insertedRow(taskData(SeedTask, 0), 0)}
  /\ now = 0
  /\ env = [tz |-> 0, dateStrings |-> TRUE]
  /\ userCount = 2
  /\ taskCount = 0
  /\ issued = {jwtSign([userId |-> u.id, email |-> u.email], JWT_SECRET, 0) : u \in SeedUsers}
  /\ pc = [p \in Procs |-> "idle"]
  /\ req = [p \in Procs |-> [op |-> "none"]]
  /\ loc = [p \in Procs |-> [at |-> "none"]]
  /\ resp = [p \in Procs |-> NoResp]
  /\ client = NoClient

NextList ==
  \/ \E p \in GateProcs : \E h \in TaskHeaders(p) : \E body \in ListCreateBodies :
        CreateStart(p, h, body)
  \/ \E p \in GateProcs : CreateHandler(p)
  \/ \E p \in GateProcs : CreateWrite(p)
  \/ \E p \in GateProcs : \E h \in TaskHeaders(p) : \E query \in ListQueries :
        ListStart(p, h, query)
  \/ \E p \in GateProcs : ListFinish(p)
  \/ Tick

SpecList == InitList /\ [][NextList]_vars

(***************************************************************************)
(* One owner's tasks: the first user creates tasks and updates and deletes *)
(* the first of them, one request at a time, on a server in UTC.          *)
(***************************************************************************)
OwnerCreateBodies ==
  { [title |-> <<"T">>],
    [title |-> <<" ">>],
    [title |-> <<"T">>, status |-> "bogus"],
    [title |-> <<" ", "X">>, status |-> "in-progress", priority |-> "low",
     id |-> 9, userId |-> 2, createdAt |-> 9] }

OwnerUpdateBodies ==
  { [status |-> "done"],
    [status |-> "bogus"],
    [title |-> <<" ">>],
    [priority |-> "urgent"],
    [title |-> <<"X", " ">>, id |-> 9, userId |-> 2, createdAt |-> 9] }

\* The first user's token.
OwnerHeaders ==
  {Header(<<W("Bearer"), SP, t>>) : t \in {x \in issued : x.payload.userId = 1}}

InitOwner ==
  /\ users = {userRow(u, 0) : u \in SeedUsers}
  /\ tasks = {}
  /\ now = 0
  /\ env = [tz |-> 0, dateStrings |-> TRUE]
  /\ userCount = 2
  /\ taskCount = 0
  /\ issued = {jwtSign([userId |-> u.id, email |-> u.email], JWT_SECRET, 0) : u \in SeedUsers}
  /\ pc = [p \in Procs |-> "idle"]
  /\ req = [p \in Procs |-> [op |-> "none"]]
  /\ loc = [p \in Procs |-> [at |-> "none"]]
  /\ resp = [p \in Procs |-> NoResp]
  /\ client = NoClient

NextOwner ==
  \/ \E p \in GateProcs : \E h \in OwnerHeaders : \E body \in OwnerCreateBodies :
        CreateStart(p, h, body)
  \/ \E p \in GateProcs : CreateHandler(p)
  \/ \E p \in GateProcs : CreateWrite(p)
  \/ \E p \in GateProcs : \E h \in OwnerHeaders : \E id \in GateTaskIds :
        \E body \in OwnerUpdateBodies : UpdateStart(p, h, id, body)
  \/ \E p \in GateProcs : UpdateHandler(p)
  \/ \E p \in GateProcs : UpdateSave(p)
  \/ \E p \in GateProcs : UpdateWrite(p)
  \/ \E p \in GateProcs : \E h \in OwnerHeaders : \E id \in GateTaskIds : DeleteStart(p, h, id)
  \/ \E p \in GateProcs : DeleteFind(p)
  \/ \E p \in GateProcs : DeleteWrite(p)
  \/ Tick

SpecOwner == InitOwner /\ [][NextOwner]_vars

(***************************************************************************)
(* Due dates: the first user's tasks over the days, in every time zone and *)
(* with either representation of DATE columns.                             *)
(***************************************************************************)
\* The dates a client sends: the days around the server's.
DueDates == {[date |-> d] : d \in -1..1}

DateCreateBodies ==
  { [title |-> <<"T">>] } \cup { [title |-> <<"T">>, dueDate |-> d] : d \in DueDates }

DateUpdateBodies ==
  { [status |-> "done"], [dueDate |-> Null] } \cup { [dueDate |-> d] : d \in DueDates }

\* No stored due date lies further back than the model follows.
DatesInRange ==
  \A row \in tasks : row.due_date # Null => row.due_date.date >= -MaxDaysBack

NextDates ==
  \/ \E p \in GateProcs : \E h \in OwnerHeaders : \E body \in DateCreateBodies :
        CreateStart(p, h, body)
  \/ \E p \in GateProcs : CreateHandler(p)
  \/ \E p \in GateProcs : CreateWrite(p)
  \/ /\ DatesInRange
     /\ \E p \in GateProcs : \E h \in OwnerHeaders : \E id \in GateTaskIds :
          \E body \in DateUpdateBodies : UpdateStart(p, h, id, body)
  \/ \E p \in GateProcs : UpdateHandler(p)
  \/ \E p \in GateProcs : UpdateSave(p)
  \/ \E p \in GateProcs : UpdateWrite(p)
  \/ Tick

SpecDates == InitTasks /\ [][NextDates]_vars

(***************************************************************************)
(* Bodies whose fields are absent, null or of another type than the        *)
(* route expects, sent by the first user.                                  *)
(***************************************************************************)
TypedCreateBodies ==
  { [title |-> <<"T">>],
    [title |-> JsonNull],
    [title |-> JsonNumber],
    [status |-> "done"],
    [title |-> <<"T">>, status |-> "null", priority |-> "5"],
    [title |-> <<"T">>, dueDate |-> Null],
    [title |-> <<"T">>, description |-> <<" ", "d">>],
    [title |-> <<"T">>, description |-> JsonNull],
    [title |-> <<"T">>, description |-> JsonNumber] }

TypedUpdateBodies ==
  { [title |-> JsonNull],
    [title |-> JsonNumber],
    [priority |-> "null"],
    [dueDate |-> Null],
    [description |-> <<"d", " ">>],
    [description |-> JsonNull],
    [description |-> JsonNumber] }

NextBodies ==
  \/ \E p \in GateProcs : \E h \in OwnerHeaders : \E body \in TypedCreateBodies :
        CreateStart(p, h, body)
  \/ \E p \in GateProcs : CreateHandler(p)
  \/ \E p \in GateProcs : CreateWrite(p)
  \/ \E p \in GateProcs : \E h \in OwnerHeaders : \E id \in GateTaskIds :
        \E body \in TypedUpdateBodies : UpdateStart(p, h, id, body)
  \/ \E p \in GateProcs : UpdateHandler(p)
  \/ \E p \in GateProcs : UpdateSave(p)
  \/ \E p \in GateProcs : UpdateWrite(p)

SpecBodies == InitOwner /\ [][NextBodies]_vars

(***************************************************************************)
(* Store calls that fail: the first user logs in, reads the profile and    *)
(* creates, updates and deletes tasks while any repository call may fail.  *)
(***************************************************************************)
FaultLoginBodies == { [email |-> <<"a", "@", "x">>, password |-> Pw1] }

FaultCreateBodies == { [title |-> <<"T">>] }

FaultUpdateBodies == { [status |-> "done"] }

NextFaults ==
  \/ \E p \in GateProcs : \E body \in FaultLoginBodies : LoginStart(p, body)
  \/ \E p \in GateProcs : LoginFinish(p)
  \/ \E p \in GateProcs : \E body \in FaultLoginBodies : LookupFails(p, "login", body)
  \/ \E p \in GateProcs : \E h \in OwnerHeaders : MeStart(p, h)
  \/ \E p \in GateProcs : MeFinish(p)
  \/ \E p \in GateProcs : \E h \in OwnerHeaders : \E body \in FaultCreateBodies :
        CreateStart(p, h, body)
  \/ \E p \in GateProcs : CreateHandler(p)
  \/ \E p \in GateProcs : CreateWrite(p)
  \/ \E p \in GateProcs : \E h \in OwnerHeaders : \E id \in GateTaskIds :
        \E body \in FaultUpdateBodies : UpdateStart(p, h, id, body)
  \/ \E p \in GateProcs : UpdateHandler(p)
  \/ \E p \in GateProcs : UpdateSave(p)
  \/ \E p \in GateProcs : UpdateWrite(p)
  \/ \E p \in GateProcs : \E h \in OwnerHeaders : \E id \in GateTaskIds :
        DeleteStart(p, h, id)
  \/ \E p \in GateProcs : DeleteFind(p)
  \/ \E p \in GateProcs : DeleteWrite(p)
  \/ \E p \in GateProcs : \E h \in OwnerHeaders :
        \E op \in {"me", "createTask", "deleteTask"} :
          GateFails(p, [op |-> op, header |-> h])
  \/ \E p \in GateProcs : StoreFails(p)

SpecFaults == InitOwner /\ [][NextFaults]_vars

(***************************************************************************)
(* Concurrent requests of one owner: the first user has one task and sends *)
(* updates and deletes for it on two connections.                          *)
(***************************************************************************)
\* The task the first user created at time 0 from { title: 'T' }.
OwnTask == createdTask([title |-> <<"T">>], 1, 1, 0)

InitRace ==
  /\ users = {userRow(u, 0) : u \in SeedUsers}
  /\ tasks = {insertedRow(taskData(OwnTask, 0), 0)}
  /\ now = 0
  /\ env = [tz |-> 0, dateStrings |-> TRUE]
  /\ userCount = 2
  /\ taskCount = 1
  /\ issued = {jwtSign([userId |-> u.id, email |-> u.email], JWT_SECRET, 0) : u \in SeedUsers}
  /\ pc = [p \in Procs |-> "idle"]
  /\ req = [p \in Procs |-> [op |-> "none"]]
  /\ loc = [p \in Procs |-> [at |-> "none"]]
  /\ resp = [p \in Procs |-> NoResp]
  /\ client = NoClient

\* Each connection sets one field.
RaceBody(p) == IF p = "p1" THEN [status |-> "done"] ELSE [title |-> <<"X">>]

NextRace ==
  \/ \E p \in Procs : \E h \in OwnerHeaders : \E id \in GateTaskIds :
        UpdateStart(p, h, id, RaceBody(p))
  \/ \E p \in Procs : UpdateHandler(p)
  \/ \E p \in Procs : UpdateSave(p)
  \/ \E p \in Procs : UpdateWrite(p)
  \/ \E p \in Procs : \E h \in OwnerHeaders : \E id \in GateTaskIds : DeleteStart(p, h, id)
  \/ \E p \in Procs : DeleteFind(p)
  \/ \E p \in Procs : DeleteWrite(p)
  \/ Tick

SpecRace == InitRace /\ [][NextRace]_vars

(***************************************************************************)
(* Reading back: the first user writes a task on one connection and reads  *)
(* it on the other, in every time zone and with either representation of   *)
(* DATE columns.                                                           *)
(***************************************************************************)
EchoCreateBodies ==
  { [title |-> <<"T">>], [title |-> <<"T">>, dueDate |-> [date |-> 1]] }

EchoUpdateBodies == { [status |-> "done"], [dueDate |-> [date |-> 1]] }

Writer == "p1"

Reader == "p2"

NextEcho ==
  \/ \E h \in OwnerHeaders : \E body \in EchoCreateBodies : CreateStart(Writer, h, body)
  \/ CreateHandler(Writer)
  \/ CreateWrite(Writer)
  \/ /\ DatesInRange
     /\ \E h \in OwnerHeaders : \E id \in GateTaskIds : \E body \in EchoUpdateBodies :
          UpdateStart(Writer, h, id, body)
  \/ UpdateHandler(Writer)
  \/ UpdateSave(Writer)
  \/ UpdateWrite(Writer)
  \/ \E h \in OwnerHeaders : \E id \in GateTaskIds : GetStart(Reader, h, id)
  \/ GetFinish(Reader)

SpecEcho == InitTasks /\ [][NextEcho]_vars

(***************************************************************************)
(* The web client and the server: one browser that logs in, looks at the   *)
(* dashboard and logs out while the clock runs.                            *)
(***************************************************************************)
ClientLoginBodies ==
  { [email |-> <<"a", "@", "x">>, password |-> Pw1],
    [email |-> <<"a", "@", "x">>, password |-> Pw2] }

\* What the client and the server do of their own accord.
ClientProgress ==
  \/ Navigate
  \/ FetchTasks(FALSE)
  \/ Deliver
  \/ LoginFinish(Browser)
  \/ ListFinish(Browser)
  \/ Receive

NextClient ==
  \/ \E body \in ClientLoginBodies : SubmitLogin(body)
  \/ Navigate
  \/ \E again \in BOOLEAN : FetchTasks(again)
  \/ Deliver
  \/ LoginFinish(Browser)
  \/ ListFinish(Browser)
  \/ Receive
  \/ Logout
  \/ Tick

SpecClient == InitOwner /\ [][NextClient]_vars

\* React renders and effects run, requests are delivered and answered.
SpecClientLive == SpecClient /\ WF_vars(ClientProgress)

(***************************************************************************)
(* Properties of registration and login (SpecAuth).                        *)
(***************************************************************************)
\* The normalized form of an email: lowercased and trimmed.
norm(email) == trim(toLowerCase(email))

\* Connection p receives a new request in this step.
Arrives(p) ==
  /\ Idle(p)
  /\ <<pc'[p], req'[p], loc'[p], resp'[p]>> # <<pc[p], req[p], loc[p], resp[p]>>

SameAccount(email) == {u \in users : norm(u.email) = norm(email)}

\* C3: in every reachable state the users table holds at most one user per
\* normalized (trimmed, lowercased) email, whatever the interleaving of the
\* Register requests.
C3_OneUserPerNormalizedEmail ==
  \A u \in users : \A v \in users : norm(u.email) = norm(v.email) => u = v

\* Two registrations of one email both passed the lookup; the second insert
\* was refused.
C3_Witness ==
  \E p \in Procs :
    /\ pc[p] = "done" /\ req[p].op = "register" /\ loc[p].at = "insert"
    /\ SameAccount(req[p].body.email) # {}

\* C4: a Register whose email differs from a registered one only by letter
\* case or surrounding whitespace is answered 409 and stores no user.
C4_VariantEmailConflicts ==
  [][\A p \in Procs :
       (/\ Arrives(p)
        /\ req'[p].op = "register"
        /\ Len(req'[p].body.password) >= MinPasswordLen
        /\ trim(req'[p].body.name) # <<>>
        /\ SameAccount(req'[p].body.email) # {})
       => (resp'[p].status = 409 /\ users' = users)]_vars

\* C5: a valid Register whose normalized email no stored user has passes the
\* lookup and, when it saves, is answered 201, adds exactly one user (with a
\* fresh id and the normalized email) and returns a verifiable token whose
\* claims are that user's id and email.
C5_DistinctRegistrationsSucceed ==
  [][\A p \in Procs :
       /\ (/\ Arrives(p)
           /\ req'[p].op = "register"
           /\ registerErrors(req'[p].body) = {}
           /\ SameAccount(req'[p].body.email) = {})
          => (pc'[p] = "register_hash" /\ users' = users)
       /\ (/\ pc[p] = "register_hash"
           /\ pc'[p] = "done"
           /\ SameAccount(req[p].body.email) = {})
          => /\ resp'[p].status = 201
             /\ \E row \in users' :
                  /\ row \notin users
                  /\ users' = users \cup {row}
                  /\ \A u \in users : u.id # row.id
                  /\ row.email = norm(req[p].body.email)
                  /\ resp'[p].body.data.user.id = row.id
                  /\ resp'[p].body.data.user.email = row.email
                  /\ LET seen == jwtVerify(<<resp'[p].body.data.token>>, JWT_SECRET, now)
                     IN  /\ seen.ok
                         /\ seen.decoded.userId = row.id
                         /\ seen.decoded.email = row.email]_vars

\* Two registrations with distinct emails, one typed in capitals, both
\* answered 201.
C5_Witness ==
  /\ Cardinality(users) = 2
  /\ \A p \in Procs : pc[p] = "done" /\ req[p].op = "register" /\ resp[p].status = 201
  /\ \E p \in Procs : req[p].body.email # norm(req[p].body.email)

\* C6: a Login refused because the email has no account and a Login refused
\* because the password is wrong receive the same response (status, body and
\* message).
C6_LoginRefusalsIdentical ==
  \A p \in Procs : \A q \in Procs :
    (/\ pc[p] = "done" /\ req[p].op = "login" /\ loc[p].at = "lookup"
     /\ pc[q] = "done" /\ req[q].op = "login" /\ loc[q].at = "password")
    => (resp[p] = resp[q] /\ resp[p].status = 401)

\* One connection was refused for an unknown email, the other for a wrong
\* password.
C6_Witness ==
  \E p \in Procs : \E q \in Procs :
    /\ pc[p] = "done" /\ req[p].op = "login" /\ loc[p].at = "lookup"
    /\ pc[q] = "done" /\ req[q].op = "login" /\ loc[q].at = "password"

\* C7: a Login with the password of a registered user and any email equal to
\* that user's after normalization (trim, lowercase) goes on to the password
\* check and is answered 200 with a token whose claims are the user's id and
\* email; no Login step changes the users table.
C7_NormalizedLoginSucceeds ==
  [][\A p \in Procs :
       /\ (/\ Arrives(p)
           /\ req'[p].op = "login"
           /\ \E u \in SameAccount(req'[p].body.email) :
                bcryptCompare(req'[p].body.password, u.password))
          => (pc'[p] = "login_compare" /\ users' = users)
       /\ (/\ pc[p] = "login_compare"
           /\ pc'[p] = "done"
           /\ bcryptCompare(req[p].body.password, loc[p].user.passwordHash))
          => /\ resp'[p].status = 200
             /\ resp'[p].body.data.token.payload.userId = loc[p].user.id
             /\ resp'[p].body.data.token.payload.email = loc[p].user.email
             /\ users' = users]_vars

(***************************************************************************)
(* Properties of the authenticate middleware (SpecGate).                   *)
(***************************************************************************)
ProtectedOps == {"me", "getTasks", "getTask", "createTask", "updateTask", "deleteTask"}

\* The header is exactly `Bearer <token>`: the scheme, one blank, one
\* non-empty token and nothing else.
WellFormed(header) ==
  /\ header.present
  /\ Len(header.value) = 3
  /\ header.value[1] = W("Bearer")
  /\ header.value[2] = SP
  /\ header.value[3] # SP

\* A token-shaped credential (signed by anyone), as opposed to garbage.
IsJwt(atom) == "payload" \in DOMAIN atom

\* The four conditions of the gate on a request's header at time `at`.
GateConditions(header, at) ==
  /\ WellFormed(header)
  /\ IsJwt(header.value[3])
  /\ header.value[3].key = JWT_SECRET
  /\ at < header.value[3].payload.exp
  /\ \E u \in users : u.id = header.value[3].payload.userId

\* The request p has just received goes on to the route's handlers.
HandlerRuns(p) == pc'[p] # "done" /\ loc'[p].at = "next"

\* C2: for every request to a protected operation the handler runs if and
\* only if the Authorization header is a well-formed bearer header, the
\* signature is valid, the token is not expired and its subject exists;
\* otherwise the gate answers the request itself and the handler never runs.
C2_HandlerRunsIffGatePasses ==
  [][\A p \in Procs :
       (Arrives(p) /\ req'[p].op \in ProtectedOps)
       => /\ HandlerRuns(p) <=> GateConditions(req'[p].header, now)
          /\ ~HandlerRuns(p) => (pc'[p] = "done" /\ resp'[p].status = 401)]_vars

\* C9: a token issued with expiry t, presented as `Bearer <token>`, is
\* accepted at every time before t while its subject exists, and refused at
\* every time from t on with "Token has expired.", which is not the answer
\* ("Invalid token.") given to a badly signed or malformed token.
C9_ExpiryBoundary ==
  [][\A p \in Procs :
       (Arrives(p) /\ req'[p].op \in ProtectedOps /\ WellFormed(req'[p].header))
       => LET t == req'[p].header.value[3]
          IN  IF IsJwt(t) /\ t.key = JWT_SECRET
                THEN /\ (now < t.payload.exp /\ \E u \in users : u.id = t.payload.userId)
                        => HandlerRuns(p)
                     /\ now >= t.payload.exp
                        => /\ pc'[p] = "done"
                           /\ resp'[p] = Unauthorized("Token has expired.")
                ELSE /\ pc'[p] = "done"
                     /\ resp'[p] = Unauthorized("Invalid token.")
                     /\ resp'[p] # Unauthorized("Token has expired.")]_vars

\* A token presented at the very instant of its expiry has been refused as
\* expired.
C9_Witness ==
  \E p \in Procs :
    /\ pc[p] = "done" /\ req[p].op \in ProtectedOps
    /\ WellFormed(req[p].header)
    /\ IsJwt(req[p].header.value[3])
    /\ req[p].header.value[3] \in issued
    /\ req[p].header.value[3].payload.exp = now
    /\ resp[p] = Unauthorized("Token has expired.")

\* C10: every request whose Authorization header is absent or is not
\* exactly `Bearer <token>` is refused with "Access denied. No token
\* provided." and its header never reaches token verification.
C10_MalformedHeaderIsNoHeader ==
  [][\A p \in Procs :
       (Arrives(p) /\ req'[p].op \in ProtectedOps /\ ~WellFormed(req'[p].header))
       => /\ pc'[p] = "done"
          /\ resp'[p] = Unauthorized("Access denied. No token provided.")
          /\ ~loc'[p].verified]_vars

\* p's handler takes its lookup step.
Looks(p, at) == pc[p] = at /\ pc'[p] # pc[p]

\* The header is `Bearer <token>` with a token of this server that has not
\* expired at time `at`.
ValidToken(header, at) ==
  /\ WellFormed(header)
  /\ IsJwt(header.value[3])
  /\ header.value[3].key = JWT_SECRET
  /\ at < header.value[3].payload.exp

Subject(header) == header.value[3].payload.userId

\* C11: once a user is deleted, a request to any protected operation that
\* presents a token issued to that user and not expired is refused with
\* "User account no longer exists.", not with "Invalid token.".
C11_DeletedSubjectIsGone ==
  [][\A p \in Procs :
       (/\ Arrives(p)
        /\ req'[p].op \in ProtectedOps
        /\ ValidToken(req'[p].header, now)
        /\ req'[p].header.value[3] \in issued
        /\ \A u \in users : u.id # Subject(req'[p].header))
       => /\ pc'[p] = "done"
          /\ resp'[p] = Unauthorized("User account no longer exists.")
          /\ resp'[p] # Unauthorized("Invalid token.")]_vars

\* A task route was refused so for a token whose user is deleted.
C11_Witness ==
  \E p \in Procs :
    /\ pc[p] = "done" /\ req[p].op \in ProtectedOps \ {"me"}
    /\ ValidToken(req[p].header, now)
    /\ req[p].header.value[3] \in issued
    /\ \A u \in users : u.id # Subject(req[p].header)
    /\ resp[p] = Unauthorized("User account no longer exists.")

\* C12: GetProfile with a valid token whose subject was deleted after the
\* token was issued fails with 404.
C12_ProfileOfDeletedIsNotFound ==
  [][\A p \in Procs :
       /\ (/\ Arrives(p)
           /\ req'[p].op = "me"
           /\ ValidToken(req'[p].header, now)
           /\ req'[p].header.value[3] \in issued
           /\ \A u \in users : u.id # Subject(req'[p].header))
          => (pc'[p] = "done" => resp'[p].status = 404)
       /\ (Looks(p, "me_find") /\ \A u \in users : u.id # loc[p].user.userId)
          => resp'[p].status = 404]_vars

\* C12 as the code has it: when the subject is already deleted as the
\* request arrives, authenticate refuses it with 401 "User account no longer
\* exists." and getMe does not run; only when the subject is deleted between
\* authenticate's lookup and getMe's own does GetProfile fail with 404 "User
\* not found.".
C12_ProfileOfDeletedIsGoneOrNotFound ==
  [][\A p \in Procs :
       /\ (/\ Arrives(p)
           /\ req'[p].op = "me"
           /\ ValidToken(req'[p].header, now)
           /\ req'[p].header.value[3] \in issued
           /\ \A u \in users : u.id # Subject(req'[p].header))
          => (pc'[p] = "done" /\ resp'[p] = subjectGone /\ resp'[p].status = 401)
       /\ (Looks(p, "me_find") /\ \A u \in users : u.id # loc[p].user.userId)
          => (resp'[p].status = 404 /\ resp'[p].body.message = "User not found.")]_vars

\* A profile read was answered 404: its user was deleted after the gate
\* had let the request through.
C12_Witness ==
  \E p \in Procs :
    /\ pc[p] = "done" /\ req[p].op = "me" /\ resp[p].status = 404
    /\ \A u \in users : u.id # loc[p].user.userId

(***************************************************************************)
(* What the responses carry (SpecApi).                                     *)
(***************************************************************************)
\* The fields a response may carry in its body, for a user, for a task, and
\* a token for its claims.
BodyFields == {"success", "message", "data", "errors"}

UserFields == {"id", "email", "name", "createdAt"}

TaskFields == {"id", "userId", "title", "description", "status", "priority",
               "dueDate", "createdAt", "updatedAt"}

ClaimFields == {"userId", "email", "iat", "exp"}

HasData(p) == "body" \in DOMAIN resp[p] /\ "data" \in DOMAIN resp[p].body

\* The user objects, tokens and tasks of a response.
UsersIn(p) ==
  IF ~HasData(p) THEN {}
  ELSE IF req[p].op \in {"register", "login"} THEN {resp[p].body.data.user}
  ELSE IF req[p].op = "me" THEN {resp[p].body.data}
  ELSE {}

TokensIn(p) ==
  IF HasData(p) /\ req[p].op \in {"register", "login"}
    THEN {resp[p].body.data.token} ELSE {}

TasksIn(p) ==
  IF HasData(p) /\ req[p].op \in {"getTask", "createTask", "updateTask"}
    THEN {resp[p].body.data} ELSE {}

\* The hashes an unredacted error message spells out.
QuotedHashes(p) ==
  IF "quotes" \in DOMAIN resp[p] /\ "password" \in DOMAIN resp[p].quotes
    THEN {resp[p].quotes.password} ELSE {}

Foreign(p) ==
  \E row \in tasks : row.id = req[p].id /\ row.user_id # loc[p].user.userId

Absent(p) == \A row \in tasks : row.id # req[p].id

\* C1: a GetTask, UpdateTask or DeleteTask addressed by an authenticated user
\* to another user's task is answered 404 "Task not found.", the same
\* response as for an id no task has, with none of the task's data, and
\* leaves the tasks table unchanged.
C1_ForeignTaskAlwaysNotFound ==
  [][\A p \in Procs :
       /\ (/\ Looks(p, "get_find") \/ Looks(p, "update_handler") \/ Looks(p, "delete_find")
           /\ Foreign(p))
          => (pc'[p] = "done" /\ resp'[p] = TaskNotFound /\ tasks' = tasks)
       /\ (/\ Looks(p, "get_find") \/ Looks(p, "delete_find")
           /\ Absent(p))
          => (pc'[p] = "done" /\ resp'[p] = TaskNotFound /\ tasks' = tasks)]_vars

\* C1 as the code has it: the same, for every GetTask and DeleteTask and for
\* every UpdateTask whose body passes the route's validators; an UpdateTask
\* whose body does not is answered 422 with the validation messages, whoever
\* owns the task and whether or not it exists, and changes nothing.
C1_ForeignTaskNotFound ==
  [][\A p \in Procs :
       /\ (/\ Looks(p, "get_find") \/ Looks(p, "delete_find")
           /\ Foreign(p) \/ Absent(p))
          => (pc'[p] = "done" /\ resp'[p] = TaskNotFound /\ tasks' = tasks)
       /\ (/\ Looks(p, "update_handler")
           /\ updateErrors(req[p].body, now) = {}
           /\ Foreign(p) \/ Absent(p))
          => (pc'[p] = "done" /\ resp'[p] = TaskNotFound /\ tasks' = tasks)
       /\ (/\ Looks(p, "update_handler")
           /\ updateErrors(req[p].body, now) # {})
          => /\ pc'[p] = "done"
             /\ resp'[p] = ValidationFailed(updateErrors(req[p].body, now))
             /\ tasks' = tasks]_vars

\* A valid update addressed to the other user's task has been answered
\* "Task not found." while the task is in the table.
C1_Witness ==
  \E p \in Procs :
    /\ pc[p] = "done" /\ req[p].op = "updateTask"
    /\ updateErrors(req[p].body, now) = {}
    /\ resp[p] = TaskNotFound
    /\ \E row \in tasks : row.id = req[p].id /\ row.user_id # ClientOf(p)

(***************************************************************************)
(* Properties of listing (SpecList).                                       *)
(***************************************************************************)
\* A filter is present when the query gives it one non-empty string.
Present(query, key) == Has(query, key) /\ "str" \in DOMAIN query[key]

\* q occurs in s, letter case ignored.
OccursIn(q, s) ==
  \E i \in 0..(Len(s) - Len(q)) :
    \A k \in 1..Len(q) : toLowerCaseChar(s[i + k]) = toLowerCaseChar(q[k])

\* The task satisfies every filter the query presents.
Wanted(t, query) ==
  /\ (Present(query, "status") /\ query.status.str # "")
       => t.status = query.status.str
  /\ (Present(query, "priority") /\ query.priority.str # "")
       => t.priority = query.priority.str
  /\ (Present(query, "search") /\ query.search.str # <<>>)
       => (OccursIn(query.search.str, t.title) \/ OccursIn(query.search.str, t.description))

Position(rows, t) == CHOOSE i \in 1..Len(rows) : rows[i] = t

\* C13: ListTasks returns exactly the requester's tasks that satisfy every
\* present filter (status and priority by equality, search as a substring of
\* the title or the description, letter case ignored), each once, never a
\* task of another user, ordered by createdAt descending with ties in the
\* order the rows were retrieved.
C13_ListIsFilteredOwnedSorted ==
  [][\A p \in Procs :
       Looks(p, "list_query")
       => LET data == resp'[p].body.data
              rows == loc'[p].retrieved
              mine == {mapTaskFromDb(r) : r \in {x \in tasks : x.user_id = loc[p].user.userId}}
          IN  /\ resp'[p].status = 200
              /\ {rows[i] : i \in 1..Len(rows)} = mine
              /\ {data[i] : i \in 1..Len(data)} = {t \in mine : Wanted(t, req[p].query)}
              /\ \A i, j \in 1..Len(data) :
                   i < j => /\ data[i] # data[j]
                            /\ data[i].createdAt >= data[j].createdAt
                            /\ data[i].createdAt = data[j].createdAt
                               => Position(rows, data[i]) < Position(rows, data[j])
              /\ \A i \in 1..Len(data) : data[i].userId = loc[p].user.userId]_vars

\* A list with the three filters returned one of the requester's two tasks
\* while the other user has a task that satisfies the filters too.
C13_Witness ==
  \E p \in Procs :
    /\ pc[p] = "done" /\ req[p].op = "getTasks" /\ resp[p].status = 200
    /\ DOMAIN req[p].query = {"status", "priority", "search"}
    /\ Len(resp[p].body.data) = 1
    /\ Len(loc[p].retrieved) = 2
    /\ \E r \in tasks :
         /\ r.user_id # loc[p].user.userId
         /\ Wanted(mapTaskFromDb(r), req[p].query)

(***************************************************************************)
(* Properties of due dates (SpecDates).                                    *)
(***************************************************************************)
\* p's update writes its row.
Writes(p) == pc[p] = "update_write" /\ pc'[p] = "done"

\* The row the request of p addresses, before the step.
Addressed(p) == {row \in tasks : row.id = req[p].id}

\* C14: an UpdateTask by the owner whose body is only {status: "done"}
\* changes the status and updatedAt of the addressed task and nothing else:
\* its title, description, priority, dueDate, id, userId and createdAt keep
\* their values, and every other task is unchanged.
C14_StatusUpdateChangesOnlyStatus ==
  [][\A p \in Procs :
       (Writes(p) /\ req[p].body = [status |-> "done"])
       => \E old \in Addressed(p) :
            tasks' = (tasks \ {old})
                       \cup {[old EXCEPT !.status = "done", !.updated_at = now]}]_vars

\* C15: in UpdateTask an explicit null for dueDate clears the stored due
\* date, and a body without the dueDate key leaves it as it was.
C15_NullClearsAbsentKeeps ==
  [][\A p \in Procs :
       Writes(p)
       => \A old \in Addressed(p) : \E new \in tasks' :
            /\ new.id = old.id
            /\ (Has(req[p].body, "dueDate") /\ req[p].body.dueDate = Null)
                 => new.due_date = Null
            /\ ~Has(req[p].body, "dueDate") => new.due_date = old.due_date]_vars

\* The calendar day of the server's time zone at instant `at`.
localDay(at) == (at + env.tz) \div TicksPerDay

\* p's create or update request passes the validators.
Validates(p) ==
  \/ Looks(p, "create_handler")
  \/ Looks(p, "update_handler")

\* C18: CreateTask and UpdateTask with dueDate equal to yesterday's date of
\* the server's time zone fail with 422, and with today's date or a later
\* one are not refused for the date, at every time of day and in every time
\* zone.
C18_PastIsYesterdayLocal ==
  [][\A p \in Procs :
       (/\ Validates(p)
        /\ Has(req[p].body, "dueDate")
        /\ req[p].body.dueDate # Null)
       => /\ req[p].body.dueDate.date = localDay(now) - 1
             => resp'[p].status = 422
          /\ req[p].body.dueDate.date >= localDay(now)
             => resp'[p].status # 422]_vars

(***************************************************************************)
(* Properties of the owner's tasks (SpecOwner).                            *)
(***************************************************************************)
Ids(rows) == {row.id : row \in rows}

\* C16: no step changes the id, userId or createdAt of a stored task, and an
\* UpdateTask, also one whose body carries id, userId or createdAt keys,
\* neither adds nor removes an id.
C16_IdentityNeverChanges ==
  [][/\ \A old \in tasks : \A new \in tasks' :
          new.id = old.id
          => new.user_id = old.user_id /\ new.created_at = old.created_at
     /\ \A p \in Procs : Writes(p) => Ids(tasks') = Ids(tasks)]_vars

\* An update whose body carried id, userId and createdAt was applied, later
\* than the task was created.
C16_Witness ==
  \E p \in Procs :
    /\ pc[p] = "done" /\ req[p].op = "updateTask" /\ resp[p].status = 200
    /\ {"id", "userId", "createdAt"} \subseteq DOMAIN req[p].body
    /\ \E row \in tasks :
         /\ row.id = req[p].id /\ row.id # req[p].body.id
         /\ row.user_id = 1 /\ row.user_id # req[p].body.userId
         /\ row.title = <<"X">>
         /\ row.created_at < row.updated_at

\* p's create inserts its row.
Inserts(p) == pc[p] = "create_write" /\ pc'[p] = "done"

\* C17: a CreateTask with a valid body stores exactly one new task, with an
\* id no stored task has, the requester as userId whatever the body says,
\* createdAt equal to updatedAt, and status "todo", priority "medium", an
\* empty description and no due date where the body gives none.
C17_CreateStoresOneTask ==
  [][\A p \in Procs :
       /\ (Looks(p, "create_handler") /\ createErrors(req[p].body, now) = {})
          => pc'[p] = "create_write"
       /\ Inserts(p)
          => \E row \in tasks' :
               /\ resp'[p].status = 201
               /\ tasks' = tasks \cup {row}
               /\ row.id \notin Ids(tasks)
               /\ row.user_id = loc[p].user.userId
               /\ row.created_at = row.updated_at
               /\ row.status = OrElse(req[p].body, "status", "todo")
               /\ row.priority = OrElse(req[p].body, "priority", "medium")
               /\ ~Has(req[p].body, "description") => row.description = <<>>
               /\ ~Has(req[p].body, "dueDate") => row.due_date = Null]_vars

\* A second task was created from a body that names another user and
\* another id; it is the requester's.
C17_Witness ==
  \E p \in Procs :
    /\ pc[p] = "done" /\ req[p].op = "createTask" /\ resp[p].status = 201
    /\ Has(req[p].body, "userId") /\ req[p].body.userId # loc[p].user.userId
    /\ Cardinality(tasks) = 2
    /\ \E row \in tasks :
         /\ row.id = resp[p].body.data.id /\ row.id # req[p].body.id
         /\ row.user_id = loc[p].user.userId
         /\ row.created_at > 0

\* p's delete removes its row.
Removes(p) == pc[p] = "delete_write" /\ pc'[p] = "done"

\* C19: a DeleteTask by the owner removes the addressed task and no other
\* and reports success; a DeleteTask addressed to an id that is no longer
\* stored is answered 404 "Task not found." and leaves the store as it is.
C19_DeleteRemovesOnce ==
  [][\A p \in Procs :
       /\ Removes(p)
          => /\ Addressed(p) # {}
             /\ tasks' = tasks \ Addressed(p)
             /\ resp'[p].status = 200
       /\ (Looks(p, "delete_find") /\ Absent(p))
          => /\ resp'[p] = TaskNotFound
             /\ resp'[p].status = 404
             /\ tasks' = tasks]_vars

\* A delete of a task that was created and deleted before was answered 404
\* while the owner's other task is still stored.
C19_Witness ==
  \E p \in Procs :
    /\ pc[p] = "done" /\ req[p].op = "deleteTask" /\ resp[p] = TaskNotFound
    /\ req[p].id <= taskCount
    /\ req[p].id \notin Ids(tasks)
    /\ tasks # {}

\* C20: every stored task has a non-empty title without surrounding white
\* space, a status among todo, in-progress, done and a priority among low,
\* medium, high.
C20_StoredTasksAreValid ==
  \A row \in tasks :
    /\ row.title # <<>>
    /\ trim(row.title) = row.title
    /\ row.status \in TaskStatuses
    /\ row.priority \in TaskPriorities

\* A task was retitled by an update whose title had trailing white space,
\* and its status set by another.
C20_Witness ==
  \E p \in Procs :
    /\ pc[p] = "done" /\ req[p].op = "updateTask" /\ resp[p].status = 200
    /\ Has(req[p].body, "title") /\ trim(req[p].body.title) # req[p].body.title
    /\ \E row \in tasks :
         /\ row.id = req[p].id
         /\ row.title = trim(req[p].body.title)
         /\ row.status = "done"

(***************************************************************************)
(* Properties of validation (SpecApi).                                     *)
(***************************************************************************)
\* The answer of p after the step is a 422 that lists field messages, this
\* step ended the request, and no table and no id counter changed.
RefusedUnprocessed(p) ==
  /\ pc'[p] = "done"
  /\ resp'[p].status = 422
  /\ resp'[p].body.success = FALSE
  /\ resp'[p].body.errors # {}
  /\ users' = users /\ tasks' = tasks
  /\ userCount' = userCount /\ taskCount' = taskCount
  /\ issued' = issued

\* A body the register validators refuse: no email address, a short
\* password or a blank name.
BadRegister(body) ==
  \/ ~isEmail(body.email)
  \/ Len(body.password) < 8
  \/ trim(body.name) = <<>>

BadLogin(body) == ~isEmail(body.email) \/ body.password = <<>>

\* A status or a priority outside the enumerations.
BadField(body) ==
  \/ Has(body, "status") /\ body.status \notin {"todo", "in-progress", "done"}
  \/ Has(body, "priority") /\ body.priority \notin {"low", "medium", "high"}

BadCreate(body) ==
  \/ ~Has(body, "title")
  \/ trim(body.title) = <<>>
  \/ BadField(body)

BadUpdate(body) ==
  \/ Has(body, "title") /\ trim(body.title) = <<>>
  \/ BadField(body)

\* C21: a Register, Login, CreateTask or UpdateTask request whose body the
\* route's validators refuse is answered 422 with the list of messages by
\* the step that validates it; the handler takes no step and the users and
\* tasks tables are unchanged.
C21_InvalidNeverReachesHandler ==
  [][\A p \in Procs :
       /\ (Arrives(p) /\ req'[p].op = "register" /\ BadRegister(req'[p].body))
          => RefusedUnprocessed(p)
       /\ (Arrives(p) /\ req'[p].op = "login" /\ BadLogin(req'[p].body))
          => RefusedUnprocessed(p)
       /\ (Looks(p, "create_handler") /\ BadCreate(req[p].body))
          => RefusedUnprocessed(p)
       /\ (Looks(p, "update_handler") /\ BadUpdate(req[p].body))
          => RefusedUnprocessed(p)]_vars

\* An update with a status outside the enumeration was refused while a task
\* is stored, and a registration with a short password was refused.
C21_Witness ==
  /\ pc["p1"] = "done" /\ req["p1"].op = "updateTask"
  /\ BadUpdate(req["p1"].body) /\ resp["p1"].status = 422
  /\ \E row \in tasks : row.id = req["p1"].id /\ row.status # req["p1"].body.status
  /\ pc["p2"] = "done" /\ req["p2"].op = "register"
  /\ BadRegister(req["p2"].body) /\ resp["p2"].status = 422

(***************************************************************************)
(* Properties of the task bodies (SpecBodies).                             *)
(***************************************************************************)
\* C22: every CreateTask or UpdateTask request the gate lets through,
\* whatever the presence and type of its title, description, status,
\* priority and dueDate, ends with a success, a 422 or, for an update of a
\* task that is not the requester's, a 404; the controller never fails on a
\* field value.
C22_BodiesEndWithSuccessOrValidation ==
  \A p \in Procs :
    (pc[p] = "done" /\ req[p].op \in {"createTask", "updateTask"} /\ loc[p].at # "gate")
    => resp[p].status \in {200, 201, 404, 422}

(***************************************************************************)
(* Properties of failing store calls (SpecFaults).                         *)
(***************************************************************************)
\* C23: every request during which a call of the repository failed, in
\* authenticate or in a handler, is answered 500, and the request makes no
\* further store call.
C23_StoreFailureIsInternal ==
  \A p \in Procs :
    loc[p].at = "fault" => pc[p] = "done" /\ resp[p].status = 500

(***************************************************************************)
(* Properties of concurrent registrations (SpecAuth).                      *)
(***************************************************************************)
\* C27: of two concurrent Register requests for one email that both passed
\* the lookup, one is answered 201 and the other 409; every Register
\* request ends with 201, 409 or 422.
C27_RegisterEndsCreatedConflictOrInvalid ==
  \A p \in Procs :
    (pc[p] = "done" /\ req[p].op = "register")
    => resp[p].status \in {201, 409, 422}

(***************************************************************************)
(* Properties of concurrent requests of one owner (SpecRace).              *)
(***************************************************************************)
\* The task as the repository returns it from the row stored now.
Current(p) == {mapTaskFromDb(row) : row \in Addressed(p)}

\* C24: the effect of an operation on the store is one atomic call: what an
\* UpdateTask writes is the merge of its body into the task as it is stored
\* at that moment, and nothing when the task is stored no longer, so that
\* the store is always the result of the completed operations in the order
\* of their writes.
C24_WriteIsWholeOperation ==
  [][\A p \in Procs :
       Writes(p)
       => IF Current(p) = {}
            THEN tasks' = tasks
            ELSE \E task \in Current(p) :
                   tasks' = updateRows(taskData(
                              updatedTask(task, sanitized(req[p].body), now), now))]_vars

\* C25: once DeleteTask has removed a task, no later step stores a task
\* with its id again, also not the write of an UpdateTask that read the task
\* before the delete.
C25_DeletedStaysDeleted ==
  [][\A id \in 1..taskCount :
       (id \notin Ids(tasks) /\ \A p \in Procs : pc[p] # "create_write")
       => id \notin Ids(tasks')]_vars

\* C26: when the two connections have each updated the task, one setting
\* the status and the other the title, and both were answered 200, the
\* stored task has the new status and the new title.
C26_DisjointUpdatesBothApplied ==
  (\A p \in Procs :
     /\ pc[p] = "done" /\ req[p].op = "updateTask" /\ resp[p].status = 200)
  => \A row \in tasks : row.status = "done" /\ row.title = <<"X">>

(***************************************************************************)
(* What the requests leave alone (SpecApi).                                *)
(***************************************************************************)
\* The step is a step of p's request.
Moves(p) == <<pc'[p], req'[p], resp'[p]>> # <<pc[p], req[p], resp[p]>>

\* C28: a request changes the users table only as a Register with a valid
\* body that is answered 201 and the tasks table only as a CreateTask,
\* UpdateTask or DeleteTask that is answered 200 or 201; a request answered
\* 401, 404, 409 or 422 and every Login, GetProfile, ListTasks and GetTask
\* leaves both tables as they are.
C28_OnlySuccessfulWritesChangeStores ==
  [][\A p \in Procs :
       Moves(p)
       => /\ users' # users
             => /\ req'[p].op = "register" /\ ~BadRegister(req'[p].body)
                /\ pc'[p] = "done" /\ resp'[p].status = 201
          /\ tasks' # tasks
             => /\ req'[p].op \in {"createTask", "updateTask", "deleteTask"}
                /\ pc'[p] = "done" /\ resp'[p].status \in {200, 201}
          /\ (pc'[p] = "done" /\ resp'[p].status \in {401, 404, 409, 422})
             => users' = users /\ tasks' = tasks
          /\ req'[p].op \in {"login", "me", "getTasks", "getTask"}
             => users' = users /\ tasks' = tasks]_vars

\* A task is stored, a read of it was answered 200, and a registration for
\* the email of the stored user was answered 409.
C28_Witness ==
  /\ pc["p1"] = "done" /\ req["p1"].op = "getTask" /\ resp["p1"].status = 200
  /\ tasks # {} /\ users # {}
  /\ pc["p2"] = "done" /\ req["p2"].op = "register" /\ resp["p2"].status = 409

(***************************************************************************)
(* Properties of reading back (SpecEcho).                                  *)
(***************************************************************************)
\* The writer's last request was a create or an update of task `id` that
\* was answered with the task.
Wrote(id) ==
  /\ pc[Writer] = "done"
  /\ req[Writer].op \in {"createTask", "updateTask"}
  /\ resp[Writer].status \in {200, 201}
  /\ resp[Writer].body.data.id = id

\* C29: the task in the response of a CreateTask or an UpdateTask equals,
\* field for field, the task a GetTask for the same id returns when no other
\* request came in between.
C29_ReadReturnsWhatWriteReturned ==
  [][(Looks(Reader, "get_find") /\ Wrote(req[Reader].id) /\ resp'[Reader].status = 200)
     => resp'[Reader].body.data = resp[Writer].body.data]_vars

(***************************************************************************)
(* Properties of the web client (SpecClientLive).                          *)
(***************************************************************************)
\* An API call of the client has been answered 401.
Answered401 ==
  client.call # "none" /\ pc[Browser] = "done" /\ resp[Browser].status = 401

\* The client shows the login page, the auth store has no token and none is
\* persisted.
LoggedOut ==
  /\ client.page = "/login"
  /\ client.call = "none"
  /\ client.token = NoToken
  /\ client.storage = NoToken

\* C30: after an API call is answered 401 the client eventually shows the
\* login page with no token in the auth store and none persisted, instead
\* of going back and forth between /login and the dashboard.
C30_UnauthorizedLeadsToLoggedOut == Answered401 ~> LoggedOut
=============================================================================
